---- MODULE Spec2Model ----
(***************************************************************************)
(* State-machine model of the browser-interaction utilities of the site:   *)
(* the useGoogleAutocomplete and useDragElements hooks                     *)
(* (content/posts/first-open-source-project), the Modal overlay            *)
(* (content/posts/building-an-accessible-modal-...), scroll                *)
(* (content/posts/how-to-make-scrollto-work-across-browsers), the          *)
(* useIntersectionObserver hook and the page with the sticky <Nav />       *)
(* (content/posts/animations-with-react) and NotesApp's mapPropsToChildren.*)
(* Each utility has its own specification; the variables of the other      *)
(* utilities stay at their initial values under it.                        *)
(***************************************************************************)
EXTENDS Integers, Sequences, FiniteSets, TLC

\* ------------------------------------------------------------------ bounds
\* Query changes (effect runs) explored per behaviour.
MaxChanges == 3
\* Calls of uuid4() after the initial one (session-token resets) explored.
MaxUuid == 1
\* Calls of getPlaceDetails explored.
MaxDetails == 1
\* Renders of the Modal (the first one and one per toggle) explored.
MaxRenders == 4

\* ------------------------------------------------------- program constants
\* debounce(..., 400): the wait of the debounced fetch.
DebounceWait == 400

\* Milliseconds one Tick of the clock advances: half the debounce wait, so that
\* a change can arrive before, halfway through and after the wait.
TickMs == DebounceWait \div 2

\* ------------------------------------------------------------ value spaces
\* The text the consumer types, keystroke by keystroke.
Typed == <<"a", "ab", "abc">>

Queries == {Typed[i] : i \in 1..Len(Typed)} \cup {""}

\* The number of characters of query q.
Chars(q) == IF q = "" THEN 0 ELSE CHOOSE i \in 1..Len(Typed) : Typed[i] = q

\* The queries one keystroke away from q: one more character typed, or the
\* last one deleted.
OneKeyAway(q) ==
  {p \in Queries : Chars(p) = Chars(q) + 1 \/ Chars(p) = Chars(q) - 1}

\* Statuses the Places API can answer with; OVER_QUERY_LIMIT stands for every
\* status the reducer has no case for.
Statuses ==
  {"OK", "ZERO_RESULTS", "INVALID_REQUEST", "REQUEST_DENIED", "UNKNOWN_ERROR",
   "OVER_QUERY_LIMIT"}

\* The place ids a prediction can carry.
PlaceIds == {1}

\* Prediction lists (place ids) an OK response may carry.
PredictionLists == {<<p>> : p \in PlaceIds}

\* JavaScript null, as the reducer's error field holds it.
null == "null"

\* A JavaScript array value.
JsArray(items) == [kind |-> "array", items |-> items]

\* The parsed JSON body of an autocomplete response: an object with the fields
\* status and predictions.  call is the request the body answers (history).
ResponseData(status, predictions, call) ==
  [kind |-> "object", status |-> status, predictions |-> predictions,
   call |-> call]

\* The focusable elements ('button, a, input, textarea, select') under the
\* root container: the background of the overlay.
RootElems == {"a", "input"}

\* The focusable elements the portal renders into the modal container.
ModalElems == {"exitButton", "textarea"}

\* The values of an element's tabindex attribute; "none": no attribute.
TabIndexes == {"none", "-1", "0"}

\* Page scroll offsets (window.pageYOffset).
Offsets == {0, 100}

\* document.body without a style attribute.
NoStyle == [fixed |-> FALSE, top |-> 0]

\* The keys of the keydown events dispatched to window.
Keys == {"Escape", "Enter"}

\* The default of scroll's duration option, in milliseconds.
DefaultDuration == 500

\* The duration options scroll is called with.
Durations == {DefaultDuration}

\* The milliseconds of Date.now() between two calls of animate.
FrameMs == {125, 250}

\* target.getBoundingClientRect().top of the targets scroll is called with.
Tops == {200, 400}

\* The offset options scroll is called with; 0 is the default.
ScrollOffsets == {0, -120}

\* The easingFn options scroll is called with: the default t * t * t * t,
\* t => t, and t => t * (3 - 2 * t), which exceeds 1 between 1/2 and 1.
EasingFns == {"easeInQuart", "linear", "overshoot"}

\* The layout changes (scrolls, resizes) a run of the tracker goes through.
MaxMoves == 3

\* Frame callbacks requested by the progress bar of <Nav /> per behaviour.
MaxNavFrames == 3

\* Reports the callback of the sections' observer is called with per behaviour.
MaxReports == 3

\* Pointer moves of drag gestures per behaviour.
MaxPointerMoves == 2

\* The height of an item of the dragged list, in px.
ItemHeight == 100

\* The positions of the pointer along the list's axis, in px from the top of
\* the list: two within each item's bounds, one on either side of its midpoint.
PointerYs == {30, 80, 130, 180, 230, 280}

\* Depth of nesting of the children NotesApp is rendered with.
MaxDepth == 1

\* The numbers of children of an element with children, and of NotesApp.
ChildCounts == 1..2

\* The data-section-id of the observed sections: the first three of the
\* page's five.
Sections == {"home", "about", "products"}

\* beginningContent's top and the height from it to endContent's bottom, as
\* getBoundingClientRect reports them when the effect of <Nav /> runs.
topOfBeginning == 200

totalHeight == 800

\* window.scrollY when a frame callback of <Nav /> runs.
NavScrollYs == {0, 300, 800}

\* state.currentEditingIndex; -1: no note is being edited.
EditingIndexes == -1..3

\* The refs useIntersectionObserver is called with, in the order of the array.
Refs == <<"banner", "section">>

\* The threshold option, in percent; the first is the default [0.9, 1].
ThresholdOptions == {<<90, 100>>, <<0>>, <<50>>}

\* The percent of an element that intersects the root.
Ratios == {0, 50, 95, 100}

VARIABLES
  \* ---- useGoogleAutocomplete
  lifecycle,      \* "rendered" (first render, effects not yet run), "mounted", "unmounted"
  query,          \* the query prop of the latest render
  state,          \* the useReducer state: results, isLoading, error
  initialRender,  \* initialRender.current
  sessionToken,   \* sessionToken.current
  uuids,          \* uuid4() values handed out so far (the next one is uuids + 1)
  intervalSet,    \* the 180000 ms interval is registered
  aborted,        \* abortSignal.current.aborted
  debouncedFn,    \* the change whose debounce instance debouncedFn.current is (0: undefined)
  timers,         \* pending setTimeout(later, 400) timers: [change, elapsed]
  inflight,       \* autocomplete requests (indices of calls) not yet settled
  detailsInflight,\* place-details requests (indices of detailCalls) not yet settled
  \* ---- history of the hook (read by the properties only)
  sinceChange,    \* ms since the last query change, saturating at DebounceWait
  changes,        \* the query changes: [query, early]
  calls,          \* the autocomplete requests issued: [query, token, resets, change]
  detailCalls,    \* the place-details requests issued: [placeId, token, resets, forCall]
  resets,         \* calls of resetSessionToken so far
  tornDown,       \* what was pending when the hook unmounted: [requests, details, timers]
  \* ---- Modal
  modalLife,      \* "rendered" (first render, effects not yet run), "mounted", "unmounted"
  isOpen,         \* the isOpen prop of the latest render
  focusAfterExit, \* the focusAfterExit prop is given
  hasUpdated,     \* the forced second render happened: the portal is rendered
  modalInDom,     \* the container div (modal.current) is a child of document.body
  modalInitialRender, \* the Modal's initialRender.current
  deferredPending,\* the setTimeout(..., 0) pass is scheduled and has not run
  renderId,       \* the latest render; each render makes its own handleKeyDown
  renderPos,      \* cachedPosition of the latest render's capturePosition()
  effectPending,  \* isOpen changed in the latest render and its effect has not run
  effectIsOpen,   \* isOpen in the closure of the isOpen effect that ran last
  effectRender,   \* the render of the isOpen effect that ran last
  effectPos,      \* cachedPosition in the closure of the isOpen effect that ran last
  listeners,      \* renders whose handleKeyDown is a keydown listener of window
  bodyStyle,      \* the style attribute of document.body
  pageYOffset,    \* window.pageYOffset
  activeElement,  \* document.activeElement
  rootTab,        \* tabindex attribute of each focusable element of the root container
  modalTab,       \* tabindex attribute of each focusable element of the modal container
  exitCalls,      \* calls of handleExit made by the latest keydown event
  \* ---- scroll
  scrollPhase,    \* "idle" (not called), "animating" (a frame is requested),
                  \* "settling" (the setTimeout is pending), "done", "threw"
  targetTop,      \* target.getBoundingClientRect().top
  scrollOffset,   \* the offset option
  callbackGiven,  \* whether the callback option is a function
  duration,       \* the duration option
  easingFn,       \* the easingFn option
  scrollY,        \* window.pageYOffset of the page scroll animates
  cachePosition,  \* the cached document position of the target
  startTime,      \* Date.now() at the call of scroll
  now,            \* Date.now()
  animationId,    \* the id of the latest requestAnimationFrame; 0: undefined
  frames,         \* ids of the requested animation frames not yet run
  transform,      \* the px base is translated by; 0 without a transform
  scrollLog,      \* what scroll did to the page so far, in order
  consumerGone,   \* the consumer of scroll has unmounted
  \* ---- useIntersectionObserver
  trackerLife,    \* "rendered", "mounted", "unmounted"
  threshold,      \* options.threshold
  ratio,          \* the intersection ratio of each element of the layout
  targets,        \* the observation targets of the observer
  previous,       \* the observer's last threshold index and isIntersecting
                  \* of each element; index -1: no observation made yet
  queuedEntries,  \* the entries the observer has queued for its callback
  reports,        \* the arguments of the calls of callback, in order
  moves,          \* the number of layout changes so far
  \* ---- Demo page and its <Nav />
  navLife,        \* "mounted", "unmounted"
  isNavShowing,   \* state.isNavShowing, the isShowing prop of <Nav />
  currentlyFocusedSection, \* state.currentlyFocusedSection
  currentSection, \* the callback's currentSection; "undefined" until assigned
  previousSection, \* the callback's previousSection
  sectionReports, \* the reports the sections' callback was called with
  navEffectPending, \* isShowing changed in the latest render (or it is the
                  \* first) and the effect of <Nav /> has not run for it
  navAnimationId, \* animationId of the latest run of the effect; 0: undefined
  navFrames,      \* the handles of the pending frame callbacks of <Nav />
  frameIds,       \* the last handle requestAnimationFrame returned
  scalerTransform, \* <<h>>: the bar's scaleY in hundredths; <<>>: not set
  \* ---- NotesApp
  notesChildren,  \* the children prop
  currentEditingIndex, \* state.currentEditingIndex
  rendered,       \* what mapPropsToChildren(children) returned; <<>> before
  \* ---- useDragElements
  dragPhase,      \* "idle", "pressed" (pointer down, delay running), "dragging"
  items,          \* the ids of the items, in their order
  dragSession,    \* draggedId, originIndex, currentIndex, pointerOffset of
                  \* the gesture; NoSession outside one
  pointer,        \* the position of the pointer at its last event
  emitted,        \* the order last emitted to the consumer; <<>>: none yet
  pointerMoves    \* the number of pointer moves so far

lookupVars ==
  <<lifecycle, query, state, initialRender, sessionToken, uuids, intervalSet,
    aborted, debouncedFn, timers, inflight, detailsInflight, sinceChange,
    changes, calls, detailCalls, resets, tornDown>>

modalVars ==
  <<modalLife, isOpen, focusAfterExit, hasUpdated, modalInDom,
    modalInitialRender, deferredPending, renderId, renderPos, effectPending,
    effectIsOpen, effectRender, effectPos, listeners, bodyStyle, pageYOffset,
    activeElement, rootTab, modalTab, exitCalls>>

scrollVars ==
  <<scrollPhase, targetTop, scrollOffset, callbackGiven, duration, easingFn,
    scrollY, cachePosition, startTime, now, animationId, frames, transform,
    scrollLog, consumerGone>>

trackerVars ==
  <<trackerLife, threshold, ratio, targets, previous, queuedEntries, reports,
    moves>>

navVars ==
  <<navLife, isNavShowing, currentlyFocusedSection, currentSection,
    previousSection, sectionReports, navEffectPending, navAnimationId,
    navFrames, frameIds, scalerTransform>>

notesVars == <<notesChildren, currentEditingIndex, rendered>>

dragVars ==
  <<dragPhase, items, dragSession, pointer, emitted, pointerMoves>>

vars ==
  <<lookupVars, modalVars, scrollVars, trackerVars, navVars, notesVars,
    dragVars>>

\* ------------------------------------------------- useGoogleAutocomplete

initialState == [results |-> JsArray(<<>>), isLoading |-> FALSE, error |-> null]

reducer(s, action) ==
  CASE action.type = "LOADING" ->
         [s EXCEPT !.isLoading = TRUE]
    [] action.type = "OK" ->
         [s EXCEPT !.results = action.payload.data, !.isLoading = FALSE,
                   !.error = null]
    [] action.type = "ZERO_RESULTS" ->
         [s EXCEPT !.results = JsArray(<<>>), !.isLoading = FALSE,
                   !.error = null]
    [] action.type = "INVALID_REQUEST" ->
         [s EXCEPT !.isLoading = FALSE, !.error = null]
    [] action.type = "REQUEST_DENIED" ->
         [s EXCEPT !.isLoading = FALSE, !.error = "Invalid 'key' parameter"]
    [] action.type = "UNKNOWN_ERROR" ->
         [s EXCEPT !.isLoading = FALSE,
                   !.error = "Unknown error, refresh and try again."]
    [] OTHER -> s

\* uuid4(): a value no earlier call returned; n values were handed out before.
uuid4(n) == n + 1

\* sessionToken.current = uuid4()
resetSessionToken ==
  /\ uuids < MaxUuid + 1
  /\ sessionToken' = uuid4(uuids)
  /\ uuids' = uuids + 1
  /\ resets' = resets + 1

\* The time a timer or the change clock shows after one Tick.
Advance(ms) == IF ms + TickMs >= DebounceWait THEN DebounceWait ELSE ms + TickMs

LookupInit ==
  /\ lifecycle = "rendered"
  /\ query = ""
  /\ state = initialState
  /\ initialRender = FALSE
  /\ sessionToken = uuid4(0)
  /\ uuids = 1
  /\ intervalSet = FALSE
  /\ aborted = FALSE
  /\ debouncedFn = 0
  /\ timers = {}
  /\ inflight = {}
  /\ detailsInflight = {}
  /\ sinceChange = DebounceWait
  /\ changes = <<>>
  /\ calls = <<>>
  /\ detailCalls = <<>>
  /\ resets = 0
  /\ tornDown = [requests |-> {}, details |-> {}, timers |-> {}]

\* The effects of a first render whose query effect dispatches LOADING.
MountEffectsLoading ==
  /\ lifecycle = "rendered"
  /\ lifecycle' = "mounted"
  /\ intervalSet' = TRUE
  /\ aborted' = FALSE
  /\ initialRender' = TRUE
  /\ state' = reducer(state, [type |-> "LOADING"])
  /\ UNCHANGED <<query, sessionToken, uuids, debouncedFn, timers, inflight,
                 detailsInflight, sinceChange, changes, calls, detailCalls,
                 resets, tornDown>>

\* The effects of the first render: the mount effect registers the interval and
\* creates the AbortController; the query effect only sets initialRender.
MountEffects ==
  /\ lifecycle = "rendered"
  /\ lifecycle' = "mounted"
  /\ intervalSet' = TRUE
  /\ aborted' = FALSE
  /\ initialRender' = TRUE
  /\ UNCHANGED <<query, state, sessionToken, uuids, debouncedFn, timers,
                 inflight, detailsInflight, sinceChange, changes, calls,
                 detailCalls, resets, tornDown>>

\* QueryChange without the clear of the previous debounced call.
QueryChangeNoClear(q) ==
  /\ lifecycle = "mounted"
  /\ initialRender
  /\ q # query
  /\ Len(changes) < MaxChanges
  /\ query' = q
  /\ state' = IF ~state.isLoading THEN reducer(state, [type |-> "LOADING"])
              ELSE state
  /\ timers' = timers \cup {[change |-> Len(changes) + 1, elapsed |-> 0]}
  /\ debouncedFn' = Len(changes) + 1
  /\ changes' = Append(changes,
                       [query |-> q,
                        early |-> changes # <<>> /\ sinceChange < DebounceWait])
  /\ sinceChange' = 0
  /\ UNCHANGED <<lifecycle, initialRender, sessionToken, uuids, intervalSet,
                 aborted, inflight, detailsInflight, calls, detailCalls,
                 resets, tornDown>>

\* A render with a new query, and the run of the query effect after it.
QueryChange(q) ==
  /\ lifecycle = "mounted"
  /\ initialRender
  /\ q # query
  /\ Len(changes) < MaxChanges
  /\ query' = q
  /\ state' = IF ~state.isLoading THEN reducer(state, [type |-> "LOADING"])
              ELSE state
  /\ timers' = {t \in timers : t.change # debouncedFn}
                 \cup {[change |-> Len(changes) + 1, elapsed |-> 0]}
  /\ debouncedFn' = Len(changes) + 1
  /\ changes' = Append(changes,
                       [query |-> q,
                        early |-> changes # <<>> /\ sinceChange < DebounceWait])
  /\ sinceChange' = 0
  /\ UNCHANGED <<lifecycle, initialRender, sessionToken, uuids, intervalSet,
                 aborted, inflight, detailsInflight, calls, detailCalls,
                 resets, tornDown>>

\* TickMs milliseconds pass.
Tick ==
  /\ \/ sinceChange < DebounceWait
     \/ \E t \in timers : t.elapsed < DebounceWait
  /\ sinceChange' = Advance(sinceChange)
  /\ timers' = {[t EXCEPT !.elapsed = Advance(t.elapsed)] : t \in timers}
  /\ UNCHANGED <<lifecycle, query, state, initialRender, sessionToken, uuids,
                 intervalSet, aborted, debouncedFn, inflight, detailsInflight,
                 changes, calls, detailCalls, resets, tornDown>>

\* A debounce timer runs later(): the debounced function builds the url from
\* the query of its render and sessionToken.current and calls fetch with the
\* abort signal.  fetch on an aborted signal rejects at once, into the catch.
TimerFire(t) ==
  /\ t \in timers
  /\ t.elapsed >= DebounceWait
  /\ timers' = timers \ {t}
  /\ IF aborted
       THEN UNCHANGED <<calls, inflight>>
       ELSE /\ calls' = Append(calls,
                               [query |-> changes[t.change].query,
                                token |-> sessionToken,
                                resets |-> resets,
                                change |-> t.change])
            /\ inflight' = inflight \cup {Len(calls) + 1}
  /\ UNCHANGED <<lifecycle, query, state, initialRender, sessionToken, uuids,
                 intervalSet, aborted, debouncedFn, detailsInflight,
                 sinceChange, changes, detailCalls, resets, tornDown>>

\* The response of request c arrives and parses: dispatch of its status with
\* the parsed body as payload.data.
Respond(c, status, predictions) ==
  /\ c \in inflight
  /\ ~aborted
  /\ inflight' = inflight \ {c}
  /\ state' = reducer(state,
                      [type |-> status,
                       payload |-> [data |-> ResponseData(status, predictions, c)]])
  /\ UNCHANGED <<lifecycle, query, initialRender, sessionToken, uuids,
                 intervalSet, aborted, debouncedFn, timers, detailsInflight,
                 sinceChange, changes, calls, detailCalls, resets, tornDown>>

\* Request c fails on the network (or its body does not parse): the catch.
NetworkFail(c) ==
  /\ c \in inflight
  /\ ~aborted
  /\ inflight' = inflight \ {c}
  /\ UNCHANGED <<lifecycle, query, state, initialRender, sessionToken, uuids,
                 intervalSet, aborted, debouncedFn, timers, detailsInflight,
                 sinceChange, changes, calls, detailCalls, resets, tornDown>>

\* getPlaceDetails sending a token of its own instead of sessionToken.current.
getPlaceDetailsFreshToken(placeId) ==
  /\ lifecycle = "mounted"
  /\ state.results.kind = "object"
  /\ \E i \in 1..Len(state.results.predictions) :
       state.results.predictions[i] = placeId
  /\ Len(detailCalls) < MaxDetails
  /\ detailCalls' = Append(detailCalls,
                           [placeId |-> placeId,
                            token |-> uuid4(uuids),
                            resets |-> resets,
                            forCall |-> state.results.call])
  /\ uuids' = uuids + 1
  /\ detailsInflight' = detailsInflight \cup {Len(detailCalls) + 1}
  /\ UNCHANGED <<lifecycle, query, state, initialRender, sessionToken,
                 intervalSet, aborted, debouncedFn, timers, inflight,
                 sinceChange, changes, calls, resets, tornDown>>

\* The consumer asks for the details of a prediction of the current results.
getPlaceDetails(placeId) ==
  /\ lifecycle = "mounted"
  /\ state.results.kind = "object"
  /\ \E i \in 1..Len(state.results.predictions) :
       state.results.predictions[i] = placeId
  /\ Len(detailCalls) < MaxDetails
  /\ detailCalls' = Append(detailCalls,
                           [placeId |-> placeId,
                            token |-> sessionToken,
                            resets |-> resets,
                            forCall |-> state.results.call])
  /\ detailsInflight' = detailsInflight \cup {Len(detailCalls) + 1}
  /\ UNCHANGED <<lifecycle, query, state, initialRender, sessionToken, uuids,
                 intervalSet, aborted, debouncedFn, timers, inflight,
                 sinceChange, changes, calls, resets, tornDown>>

\* The response of details request d arrives and parses.
DetailsRespond(d) ==
  /\ d \in detailsInflight
  /\ ~aborted
  /\ detailsInflight' = detailsInflight \ {d}
  /\ resetSessionToken
  /\ UNCHANGED <<lifecycle, query, state, initialRender, intervalSet, aborted,
                 debouncedFn, timers, inflight, sinceChange, changes, calls,
                 detailCalls, tornDown>>

\* Details request d fails on the network: the catch.
DetailsFail(d) ==
  /\ d \in detailsInflight
  /\ ~aborted
  /\ detailsInflight' = detailsInflight \ {d}
  /\ UNCHANGED <<lifecycle, query, state, initialRender, sessionToken, uuids,
                 intervalSet, aborted, debouncedFn, timers, inflight,
                 sinceChange, changes, calls, detailCalls, resets, tornDown>>

\* The 180000 ms interval elapses.
IntervalTick ==
  /\ intervalSet
  /\ resetSessionToken
  /\ UNCHANGED <<lifecycle, query, state, initialRender, intervalSet, aborted,
                 debouncedFn, timers, inflight, detailsInflight, sinceChange,
                 changes, calls, detailCalls, tornDown>>

\* The cleanup without abortController.current.abort().
UnmountNoAbort ==
  /\ lifecycle = "mounted"
  /\ lifecycle' = "unmounted"
  /\ intervalSet' = FALSE
  /\ tornDown' = [requests |-> inflight, details |-> detailsInflight,
                  timers |-> {t.change : t \in timers}]
  /\ UNCHANGED <<query, state, initialRender, sessionToken, uuids, aborted,
                 debouncedFn, timers, inflight, detailsInflight, sinceChange,
                 changes, calls, detailCalls, resets>>

\* The cleanup of the mount effect: clearInterval and abort(), which rejects
\* every fetch that carries the signal.  The debounce timer is not cleared.
Unmount ==
  /\ lifecycle = "mounted"
  /\ lifecycle' = "unmounted"
  /\ intervalSet' = FALSE
  /\ aborted' = TRUE
  /\ inflight' = {}
  /\ detailsInflight' = {}
  /\ tornDown' = [requests |-> inflight, details |-> detailsInflight,
                  timers |-> {t.change : t \in timers}]
  /\ UNCHANGED <<query, state, initialRender, sessionToken, uuids, debouncedFn,
                 timers, sinceChange, changes, calls, detailCalls, resets>>

LookupNext ==
  \/ MountEffects /\ UNCHANGED <<modalVars, scrollVars, trackerVars, navVars, notesVars, dragVars>>
  \/ \E q \in OneKeyAway(query) : QueryChange(q) /\ UNCHANGED <<modalVars, scrollVars, trackerVars, navVars, notesVars, dragVars>>
  \/ Tick /\ UNCHANGED <<modalVars, scrollVars, trackerVars, navVars, notesVars, dragVars>>
  \/ \E t \in timers : TimerFire(t) /\ UNCHANGED <<modalVars, scrollVars, trackerVars, navVars, notesVars, dragVars>>
  \/ \E c \in inflight, p \in PredictionLists :
       Respond(c, "OK", p) /\ UNCHANGED <<modalVars, scrollVars, trackerVars, navVars, notesVars, dragVars>>
  \/ \E c \in inflight, s \in Statuses \ {"OK"} :
       Respond(c, s, <<>>) /\ UNCHANGED <<modalVars, scrollVars, trackerVars, navVars, notesVars, dragVars>>
  \/ \E c \in inflight : NetworkFail(c) /\ UNCHANGED <<modalVars, scrollVars, trackerVars, navVars, notesVars, dragVars>>
  \/ \E p \in PlaceIds : getPlaceDetails(p) /\ UNCHANGED <<modalVars, scrollVars, trackerVars, navVars, notesVars, dragVars>>
  \/ \E d \in detailsInflight : DetailsRespond(d) /\ UNCHANGED <<modalVars, scrollVars, trackerVars, navVars, notesVars, dragVars>>
  \/ \E d \in detailsInflight : DetailsFail(d) /\ UNCHANGED <<modalVars, scrollVars, trackerVars, navVars, notesVars, dragVars>>
  \/ IntervalTick /\ UNCHANGED <<modalVars, scrollVars, trackerVars, navVars, notesVars, dragVars>>
  \/ Unmount /\ UNCHANGED <<modalVars, scrollVars, trackerVars, navVars, notesVars, dragVars>>

\* ------------------------------------------------------------------ Modal

\* document.querySelector(`#${root}`) finds the root container: the root prop
\* names the node the application is rendered into.
rootContainer == TRUE

\* toggleTabIndex with 'on' leaving the attribute in place.
toggleTabIndexKeepsOff(type, tabs) ==
  [e \in DOMAIN tabs |-> IF type = "on" THEN tabs[e] ELSE "-1"]

\* toggleTabIndex(type, container) on the focusable elements of a container,
\* given and returned as their tabindex attributes.
toggleTabIndex(type, tabs) ==
  [e \in DOMAIN tabs |-> IF type = "on" THEN "none" ELSE "-1"]

\* freeze() of a capturePosition() with the given cachedPosition.
freeze(cachedPosition) == [fixed |-> TRUE, top |-> cachedPosition * (-1)]

\* The state the Modal is in after its first render, with the given props and
\* document.
ModalAt(open, exitGiven, offset, tabs) ==
  /\ modalLife = "rendered"
  /\ isOpen = open
  /\ focusAfterExit = exitGiven
  /\ hasUpdated = FALSE
  /\ modalInDom = FALSE
  /\ modalInitialRender = FALSE
  /\ deferredPending = FALSE
  /\ renderId = 1
  /\ renderPos = offset
  /\ effectPending = TRUE
  /\ effectIsOpen = FALSE
  /\ effectRender = 0
  /\ effectPos = 0
  /\ listeners = {}
  /\ bodyStyle = NoStyle
  /\ pageYOffset = offset
  /\ activeElement = "body"
  /\ rootTab = tabs
  /\ modalTab = <<>>
  /\ exitCalls = 0

ModalInit ==
  \E open \in BOOLEAN, exitGiven \in BOOLEAN, offset \in Offsets,
     tabs \in [RootElems -> TabIndexes] :
    ModalAt(open, exitGiven, offset, tabs)

\* The body of the isOpen effect without its two focus() calls.
EffectBodyNoFocus(l, s, y) ==
  /\ IF isOpen
       THEN /\ modalTab' = toggleTabIndex("on", modalTab)
            /\ rootTab' = toggleTabIndex("off", rootTab)
            /\ listeners' = l \cup {renderId}
            /\ bodyStyle' = freeze(renderPos)
            /\ pageYOffset' = 0
            /\ UNCHANGED <<modalInitialRender, deferredPending>>
       ELSE /\ modalTab' = toggleTabIndex("off", modalTab)
            /\ rootTab' = toggleTabIndex("on", rootTab)
            /\ listeners' = l \ {renderId}
            /\ bodyStyle' = NoStyle
            /\ pageYOffset' = renderPos
            /\ modalInitialRender' = TRUE
            /\ deferredPending' = (deferredPending \/ ~modalInitialRender)
  /\ activeElement' = activeElement
  /\ effectPending' = FALSE
  /\ effectIsOpen' = isOpen
  /\ effectRender' = renderId
  /\ effectPos' = renderPos

\* The body of the isOpen effect, run in the latest render's closure on the
\* listeners, body style and scroll offset that the cleanup before it left.
EffectBody(l, s, y) ==
  /\ IF isOpen
       THEN /\ activeElement' = IF hasUpdated THEN "exitButton" ELSE activeElement
            /\ modalTab' = toggleTabIndex("on", modalTab)
            /\ rootTab' = IF rootContainer THEN toggleTabIndex("off", rootTab)
                          ELSE rootTab
            /\ listeners' = l \cup {renderId}
            /\ bodyStyle' = freeze(renderPos)
            /\ pageYOffset' = 0
            /\ UNCHANGED <<modalInitialRender, deferredPending>>
       ELSE /\ modalTab' = toggleTabIndex("off", modalTab)
            /\ rootTab' = IF rootContainer THEN toggleTabIndex("on", rootTab)
                          ELSE rootTab
            /\ listeners' = l \ {renderId}
            /\ bodyStyle' = NoStyle
            /\ pageYOffset' = renderPos
            /\ activeElement' = IF focusAfterExit THEN "focusAfterExit"
                                ELSE activeElement
            /\ modalInitialRender' = TRUE
            /\ deferredPending' = (deferredPending \/ ~modalInitialRender)
  /\ effectPending' = FALSE
  /\ effectIsOpen' = isOpen
  /\ effectRender' = renderId
  /\ effectPos' = renderPos

\* The effects of the first render: the container div is created and
\* prepended and the second render is forced; then the isOpen effect runs.
ModalMountEffects ==
  /\ modalLife = "rendered"
  /\ modalLife' = "mounted"
  /\ modalInDom' = TRUE
  /\ EffectBody(listeners, bodyStyle, pageYOffset)
  /\ UNCHANGED <<exitCalls, isOpen, focusAfterExit, hasUpdated, renderId, renderPos>>

\* The forced second render: the portal renders the exit button and the
\* children into the container; isOpen is unchanged, so no effect runs.
PortalRender ==
  /\ modalLife = "mounted"
  /\ ~hasUpdated
  /\ hasUpdated' = TRUE
  /\ modalTab' = [e \in ModalElems |-> "none"]
  /\ renderId' = renderId + 1
  /\ renderPos' = pageYOffset
  /\ UNCHANGED <<exitCalls, modalLife, isOpen, focusAfterExit, modalInDom,
                 modalInitialRender, deferredPending, effectPending,
                 effectIsOpen, effectRender, effectPos, listeners, bodyStyle,
                 pageYOffset, activeElement, rootTab>>

\* The consumer toggles isOpen: a render with the new value.
Toggle ==
  /\ modalLife = "mounted"
  /\ hasUpdated
  /\ ~effectPending
  /\ renderId < MaxRenders + 1
  /\ isOpen' = ~isOpen
  /\ renderId' = renderId + 1
  /\ renderPos' = pageYOffset
  /\ effectPending' = TRUE
  /\ UNCHANGED <<exitCalls, modalLife, focusAfterExit, hasUpdated, modalInDom,
                 modalInitialRender, deferredPending, effectIsOpen,
                 effectRender, effectPos, listeners, bodyStyle, pageYOffset,
                 activeElement, rootTab, modalTab>>

\* The isOpen effect after a toggle: the cleanup of the run before it, in that
\* run's closure, then the body.
IsOpenEffect ==
  /\ modalLife = "mounted"
  /\ hasUpdated
  /\ effectPending
  /\ EffectBody(IF effectIsOpen THEN listeners \ {effectRender} ELSE listeners,
                IF effectIsOpen THEN NoStyle ELSE bodyStyle,
                IF effectIsOpen THEN effectPos ELSE pageYOffset)
  /\ UNCHANGED <<exitCalls, modalLife, isOpen, focusAfterExit, hasUpdated, modalInDom,
                 renderId, renderPos>>

\* The deferred pass of the first closed run.
DeferredPass ==
  /\ deferredPending
  /\ hasUpdated
  /\ deferredPending' = FALSE
  /\ modalTab' = toggleTabIndex("off", modalTab)
  /\ UNCHANGED <<exitCalls, modalLife, isOpen, focusAfterExit, hasUpdated, modalInDom,
                 modalInitialRender, renderId, renderPos, effectPending,
                 effectIsOpen, effectRender, effectPos, listeners, bodyStyle,
                 pageYOffset, activeElement, rootTab>>

\* The user scrolls the page; a fixed body does not scroll.
Scroll(offset) ==
  /\ modalLife = "mounted"
  /\ ~bodyStyle.fixed
  /\ offset # pageYOffset
  /\ pageYOffset' = offset
  /\ UNCHANGED <<exitCalls, modalLife, isOpen, focusAfterExit, hasUpdated, modalInDom,
                 modalInitialRender, deferredPending, renderId, renderPos,
                 effectPending, effectIsOpen, effectRender, effectPos,
                 listeners, bodyStyle, activeElement, rootTab, modalTab>>

\* A keydown event on window: every registered handleKeyDown runs, and calls
\* handleExit when the key is Escape.
KeyDown(key) ==
  /\ exitCalls' = IF key = "Escape" THEN Cardinality(listeners) ELSE 0
  /\ UNCHANGED <<modalLife, isOpen, focusAfterExit, hasUpdated, modalInDom,
                 modalInitialRender, deferredPending, renderId, renderPos,
                 effectPending, effectIsOpen, effectRender, effectPos,
                 listeners, bodyStyle, pageYOffset, activeElement, rootTab,
                 modalTab>>

\* An unmount whose cleanup leaves the keydown listener registered.
ModalUnmountKeepsListener ==
  /\ modalLife = "mounted"
  /\ hasUpdated
  /\ ~effectPending
  /\ modalLife' = "unmounted"
  /\ modalInDom' = FALSE
  /\ modalTab' = <<>>
  /\ bodyStyle' = IF effectIsOpen THEN NoStyle ELSE bodyStyle
  /\ pageYOffset' = IF effectIsOpen THEN effectPos ELSE pageYOffset
  /\ UNCHANGED <<exitCalls, isOpen, focusAfterExit, hasUpdated,
                 modalInitialRender, deferredPending, renderId, renderPos,
                 effectPending, effectIsOpen, effectRender, effectPos,
                 listeners, activeElement, rootTab>>

\* The Modal unmounts: the cleanup of the container effect removes the div,
\* the cleanup of the isOpen effect runs in the closure of its last run.
ModalUnmount ==
  /\ modalLife = "mounted"
  /\ hasUpdated
  /\ ~effectPending
  /\ modalLife' = "unmounted"
  /\ modalInDom' = FALSE
  /\ modalTab' = <<>>
  /\ listeners' = IF effectIsOpen THEN listeners \ {effectRender} ELSE listeners
  /\ bodyStyle' = IF effectIsOpen THEN NoStyle ELSE bodyStyle
  /\ pageYOffset' = IF effectIsOpen THEN effectPos ELSE pageYOffset
  /\ UNCHANGED <<exitCalls, isOpen, focusAfterExit, hasUpdated, modalInitialRender,
                 deferredPending, renderId, renderPos, effectPending,
                 effectIsOpen, effectRender, effectPos, activeElement, rootTab>>

ModalNext ==
  \/ ModalMountEffects /\ UNCHANGED <<lookupVars, scrollVars, trackerVars, navVars, notesVars, dragVars>>
  \/ PortalRender /\ UNCHANGED <<lookupVars, scrollVars, trackerVars, navVars, notesVars, dragVars>>
  \/ Toggle /\ UNCHANGED <<lookupVars, scrollVars, trackerVars, navVars, notesVars, dragVars>>
  \/ IsOpenEffect /\ UNCHANGED <<lookupVars, scrollVars, trackerVars, navVars, notesVars, dragVars>>
  \/ DeferredPass /\ UNCHANGED <<lookupVars, scrollVars, trackerVars, navVars, notesVars, dragVars>>
  \/ \E offset \in Offsets : Scroll(offset) /\ UNCHANGED <<lookupVars, scrollVars, trackerVars, navVars, notesVars, dragVars>>
  \/ ModalUnmount /\ UNCHANGED <<lookupVars, scrollVars, trackerVars, navVars, notesVars, dragVars>>
  \/ \E key \in Keys : KeyDown(key) /\ UNCHANGED <<lookupVars, scrollVars, trackerVars, navVars, notesVars, dragVars>>

\* ------------------------------------------------------------------ scroll

\* Numbers the animation computes are kept exact, as fractions in lowest
\* terms with a positive denominator.
RECURSIVE GCD(_, _)
GCD(a, b) == IF b = 0 THEN a ELSE GCD(b, a % b)

Abs(a) == IF a < 0 THEN 0 - a ELSE a

Rat(n, d) ==
  LET g == GCD(Abs(n), d) IN [n |-> n \div g, d |-> d \div g]

\* easingFn(t) for each of the easing options.
Ease(fn, t) ==
  CASE fn = "easeInQuart" -> Rat(t.n * t.n * t.n * t.n, t.d * t.d * t.d * t.d)
    [] fn = "linear" -> t
    [] fn = "overshoot" -> Rat(t.n * (3 * t.d - 2 * t.n), t.d * t.d)

\* The translate of a frame whose easing value is ease.
translate(ease, top, offset, cache) ==
  IF ease.n > ease.d
    THEN Rat(cache * (-1), 1)
    ELSE Rat(ease.n * (top + offset) * (-1), ease.d)

\* The state before scroll is called with the given options on a page at the
\* given scroll offset.
ScrollAt(top, offset, cb, dur, fn, y) ==
  /\ scrollPhase = "idle"
  /\ targetTop = top
  /\ scrollOffset = offset
  /\ callbackGiven = cb
  /\ duration = dur
  /\ easingFn = fn
  /\ scrollY = y
  /\ cachePosition = 0
  /\ startTime = 0
  /\ now = 0
  /\ animationId = 0
  /\ frames = {}
  /\ transform = Rat(0, 1)
  /\ scrollLog = <<>>
  /\ consumerGone = FALSE

ScrollInit ==
  \E top \in Tops, offset \in ScrollOffsets, cb \in BOOLEAN,
     dur \in Durations, fn \in EasingFns, y \in Offsets :
    ScrollAt(top, offset, cb, dur, fn, y)

\* animate() at time at, with the given cachePosition.
animate(at, cache) ==
  LET elapsed == at - startTime IN
  IF elapsed < duration
    THEN /\ transform' = translate(Ease(easingFn, Rat(elapsed, duration)),
                                   targetTop, scrollOffset, cache)
         /\ animationId' = animationId + 1
         /\ frames' = (frames \ {animationId}) \cup {animationId + 1}
         /\ scrollLog' = Append(scrollLog, "translate")
         /\ scrollPhase' = "animating"
    ELSE /\ scrollPhase' = "settling"
         /\ frames' = frames \ {animationId}
         /\ UNCHANGED <<transform, animationId, scrollLog>>

\* scroll(options): the position of the target and the time are cached and
\* animate is called for the first time.
scroll ==
  /\ scrollPhase = "idle"
  /\ cachePosition' = targetTop + scrollOffset + scrollY
  /\ startTime' = now
  /\ animate(now, targetTop + scrollOffset + scrollY)
  /\ UNCHANGED <<targetTop, scrollOffset, callbackGiven, duration, easingFn,
                 scrollY, now, consumerGone>>

\* The requested animation frame runs animate, ms milliseconds after the call
\* of animate that requested it.
Frame(ms) ==
  /\ scrollPhase = "animating"
  /\ animationId \in frames
  /\ now' = now + ms
  /\ animate(now + ms, cachePosition)
  /\ UNCHANGED <<targetTop, scrollOffset, callbackGiven, duration, easingFn,
                 scrollY, cachePosition, startTime, consumerGone>>

\* A timeout callback that calls callback before the scroll jump.
TimeoutCallbackFirst ==
  /\ scrollPhase = "settling"
  /\ frames' = frames \ {animationId}
  /\ transform' = Rat(0, 1)
  /\ scrollY' = cachePosition
  /\ scrollLog' = scrollLog \o <<"reset",
                                 IF callbackGiven THEN "callback"
                                 ELSE "TypeError", "jump">>
  /\ scrollPhase' = IF callbackGiven THEN "done" ELSE "threw"
  /\ UNCHANGED <<targetTop, scrollOffset, callbackGiven, duration, easingFn,
                 cachePosition, startTime, now, animationId, consumerGone>>

\* The setTimeout(..., 0) callback: the frame is cancelled, the transform is
\* reset, the window jumps to cachePosition and callback is called; calling an
\* undefined callback throws a TypeError.
Timeout ==
  /\ scrollPhase = "settling"
  /\ frames' = frames \ {animationId}
  /\ transform' = Rat(0, 1)
  /\ scrollY' = cachePosition
  /\ scrollLog' = scrollLog \o <<"reset", "jump",
                                 IF callbackGiven THEN "callback"
                                 ELSE "TypeError">>
  /\ scrollPhase' = IF callbackGiven THEN "done" ELSE "threw"
  /\ UNCHANGED <<targetTop, scrollOffset, callbackGiven, duration, easingFn,
                 cachePosition, startTime, now, animationId, consumerGone>>

\* The consumer of a running scroll unmounts.  scroll returns nothing and
\* keeps animationId to itself: nothing of the animation changes.
ConsumerUnmount ==
  /\ scrollPhase \in {"animating", "settling"}
  /\ ~consumerGone
  /\ consumerGone' = TRUE
  /\ UNCHANGED <<scrollPhase, targetTop, scrollOffset, callbackGiven, duration,
                 easingFn, scrollY, cachePosition, startTime, now, animationId,
                 frames, transform, scrollLog>>

ScrollNext ==
  \/ scroll /\ UNCHANGED <<lookupVars, modalVars, trackerVars, navVars, notesVars, dragVars>>
  \/ \E ms \in FrameMs : Frame(ms) /\ UNCHANGED <<lookupVars, modalVars, trackerVars, navVars, notesVars, dragVars>>
  \/ Timeout /\ UNCHANGED <<lookupVars, modalVars, trackerVars, navVars, notesVars, dragVars>>
  \/ ConsumerUnmount /\ UNCHANGED <<lookupVars, modalVars, trackerVars, navVars, notesVars, dragVars>>

\* ------------------------------------------------ useIntersectionObserver

\* The elements the refs refer to.
RefElems == {Refs[i] : i \in 1..Len(Refs)}

\* The index of the first threshold greater than the ratio r, counted from
\* 0, or the number of thresholds when there is none.
ThresholdIndex(r) ==
  Cardinality({i \in 1..Len(threshold) : threshold[i] <= r})

\* What the observer computes for element e: its threshold index and whether
\* it intersects the root.
Observation(e) ==
  [thresholdIndex |-> ThresholdIndex(ratio[e]), isIntersecting |-> ratio[e] > 0]

\* The observer queues an entry for a target whose observation differs from
\* the one before.
Changed(e) == e \in targets /\ Observation(e) # previous[e]

\* The entry the observer queues for element e.
Entry(e) == [target |-> e, isIntersecting |-> ratio[e] > 0]

\* The state after the first render of a component that calls the hook with
\* the given threshold option, over the given layout.
TrackerAt(th, layout) ==
  /\ trackerLife = "rendered"
  /\ threshold = th
  /\ ratio = layout
  /\ targets = {}
  /\ previous = [e \in RefElems |-> [thresholdIndex |-> -1,
                                     isIntersecting |-> FALSE]]
  /\ queuedEntries = <<>>
  /\ reports = <<>>
  /\ moves = 0

TrackerInit ==
  \E th \in ThresholdOptions, layout \in [RefElems -> {0, 100}] :
    TrackerAt(th, layout)

\* The effect of the hook: the observer is created with the options and
\* observes the element of every ref.
TrackerMount ==
  /\ trackerLife = "rendered"
  /\ trackerLife' = "mounted"
  /\ targets' = RefElems
  /\ UNCHANGED <<threshold, ratio, previous, queuedEntries, reports, moves>>

\* The layout changes: element e now intersects the root by r percent.
Move(e, r) ==
  /\ moves < MaxMoves
  /\ r # ratio[e]
  /\ ratio' = [ratio EXCEPT ![e] = r]
  /\ moves' = moves + 1
  /\ UNCHANGED <<trackerLife, threshold, targets, previous, queuedEntries,
                 reports>>

\* The observer's update of a frame: it queues an entry for every target
\* whose observation changed, in the order the targets were observed in.
Sample ==
  /\ \E e \in RefElems : Changed(e)
  /\ LET changed == SelectSeq(Refs, Changed)
     IN queuedEntries' = queuedEntries
                           \o [i \in 1..Len(changed) |-> Entry(changed[i])]
  /\ previous' = [e \in RefElems |->
                    IF e \in targets THEN Observation(e) ELSE previous[e]]
  /\ UNCHANGED <<trackerLife, threshold, ratio, targets, reports, moves>>

\* The observer's callback that calls callback for the first entry only.
NotifyFirstOnly ==
  /\ queuedEntries # <<>>
  /\ reports' = Append(reports,
                       [isIntersecting |-> queuedEntries[1].isIntersecting,
                        target |-> queuedEntries[1].target])
  /\ queuedEntries' = <<>>
  /\ UNCHANGED <<trackerLife, threshold, ratio, targets, previous, moves>>

\* The observer delivers its queued entries: the hook's observer callback
\* calls callback for each entry.
Notify ==
  /\ queuedEntries # <<>>
  /\ reports' = reports
                  \o [i \in 1..Len(queuedEntries) |->
                        [isIntersecting |-> queuedEntries[i].isIntersecting,
                         target |-> queuedEntries[i].target]]
  /\ queuedEntries' = <<>>
  /\ UNCHANGED <<trackerLife, threshold, ratio, targets, previous, moves>>

\* The component unmounts: the cleanup calls observer.disconnect(), which
\* empties the observation targets.  The Intersection Observer specification
\* leaves the entries already queued in place and engines differ in dropping
\* them, so they are kept or dropped.
TrackerUnmount ==
  /\ trackerLife = "mounted"
  /\ trackerLife' = "unmounted"
  /\ targets' = {}
  /\ queuedEntries' \in {queuedEntries, <<>>}
  /\ UNCHANGED <<threshold, ratio, previous, reports, moves>>

TrackerNext ==
  \/ TrackerMount /\ UNCHANGED <<lookupVars, modalVars, scrollVars, navVars, notesVars, dragVars>>
  \/ \E e \in RefElems, r \in Ratios :
       Move(e, r) /\ UNCHANGED <<lookupVars, modalVars, scrollVars, navVars, notesVars, dragVars>>
  \/ Sample /\ UNCHANGED <<lookupVars, modalVars, scrollVars, navVars, notesVars, dragVars>>
  \/ Notify /\ UNCHANGED <<lookupVars, modalVars, scrollVars, navVars, notesVars, dragVars>>
  \/ TrackerUnmount /\ UNCHANGED <<lookupVars, modalVars, scrollVars, navVars, notesVars, dragVars>>

\* ------------------------------------------------- Demo page and its <Nav />

\* calculateScroll's (window.scrollY / totalHeight).toFixed(2), in hundredths:
\* the quotient n / d rounded to two decimals.
toFixed2(n, d) == (200 * n + d) \div (2 * d)

\* calculateScroll: the scaleY the progress bar gets at scroll position y, in
\* hundredths.
calculateScroll(y) ==
  IF topOfBeginning <= y THEN toFixed2(y, totalHeight) ELSE 0

\* window.cancelAnimationFrame(id) over the pending frame callbacks; an id
\* that is undefined (0) or not pending cancels nothing.
cancelAnimationFrame(pending, id) == pending \ {id}

\* The state after the first render of the page: the reducer's initialState,
\* currentSection and previousSection declared and not assigned, the effect
\* of <Nav /> not yet run.
NavAt ==
  /\ navLife = "mounted"
  /\ isNavShowing = FALSE
  /\ currentlyFocusedSection = "undefined"
  /\ currentSection = "undefined"
  /\ previousSection = "undefined"
  /\ sectionReports = <<>>
  /\ navEffectPending = TRUE
  /\ navAnimationId = 0
  /\ navFrames = {}
  /\ frameIds = 0
  /\ scalerTransform = <<>>

\* The effect of <Nav /> that leaves the frame callback of the run before
\* pending: no cleanup.
NavEffectNoCleanup(y) ==
  /\ navLife = "mounted"
  /\ navEffectPending
  /\ navEffectPending' = FALSE
  /\ IF isNavShowing
       THEN /\ scalerTransform' = <<calculateScroll(y)>>
            /\ frameIds' = frameIds + 1
            /\ navAnimationId' = frameIds + 1
            /\ navFrames' = navFrames \cup {frameIds + 1}
       ELSE /\ scalerTransform' = <<0>>
            /\ navAnimationId' = 0
            /\ UNCHANGED <<navFrames, frameIds>>
  /\ UNCHANGED <<navLife, isNavShowing, currentlyFocusedSection,
                 currentSection, previousSection, sectionReports>>

\* The effect of <Nav /> on [isShowing], run after the first render and after
\* every render that changed isShowing, at window.scrollY = y: the cleanup of
\* the run before cancels the frame its animationId names, then the new run,
\* with an animationId of its own, calls animate() when isShowing (one
\* calculateScroll and a requested frame) and otherwise cancels its undefined
\* animationId and resets the bar.
NavEffect(y) ==
  /\ navLife = "mounted"
  /\ navEffectPending
  /\ navEffectPending' = FALSE
  /\ LET cleaned == cancelAnimationFrame(navFrames, navAnimationId)
     IN IF isNavShowing
          THEN /\ scalerTransform' = <<calculateScroll(y)>>
               /\ frameIds' = frameIds + 1
               /\ navAnimationId' = frameIds + 1
               /\ navFrames' = cleaned \cup {frameIds + 1}
          ELSE /\ scalerTransform' = <<0>>
               /\ navAnimationId' = 0
               /\ navFrames' = cancelAnimationFrame(cleaned, 0)
               /\ UNCHANGED frameIds
  /\ UNCHANGED <<navLife, isNavShowing, currentlyFocusedSection,
                 currentSection, previousSection, sectionReports>>

\* The browser runs the pending frame callback id at window.scrollY = y:
\* animate() does one calculateScroll and requests the next frame, whose
\* handle it stores in animationId.
NavFrame(id, y) ==
  /\ id \in navFrames
  /\ frameIds < MaxNavFrames
  /\ scalerTransform' = <<calculateScroll(y)>>
  /\ frameIds' = frameIds + 1
  /\ navAnimationId' = frameIds + 1
  /\ navFrames' = (navFrames \ {id}) \cup {frameIds + 1}
  /\ UNCHANGED <<navLife, isNavShowing, currentlyFocusedSection,
                 currentSection, previousSection, sectionReports,
                 navEffectPending>>

\* The callback of the banner's observer: HIDE_NAV when the banner
\* intersects, SHOW_NAV when it does not.  The dispatch renders the page; a
\* render that changes isShowing schedules the effect of <Nav />.  React runs
\* a scheduled effect before it starts the next render, so a dispatch finds
\* none pending.
BannerReport(isIntersecting) ==
  /\ navLife = "mounted"
  /\ ~navEffectPending
  /\ isIntersecting \/ frameIds < MaxNavFrames
  /\ isNavShowing' = ~isIntersecting
  /\ navEffectPending' = (isNavShowing # ~isIntersecting)
  /\ UNCHANGED <<navLife, currentlyFocusedSection, currentSection,
                 previousSection, sectionReports, navAnimationId, navFrames,
                 frameIds, scalerTransform>>

\* The callback of the sections' observer that dispatches the revert to the
\* previous section and leaves currentSection as it is.
SectionReportKeepsCurrent(sectionData, isIntersecting) ==
  /\ navLife = "mounted"
  /\ ~navEffectPending
  /\ Len(sectionReports) < MaxReports
  /\ sectionReports' = Append(sectionReports,
                              [isIntersecting |-> isIntersecting,
                               sectionId |-> sectionData])
  /\ IF isIntersecting
       THEN /\ currentlyFocusedSection' = sectionData
            /\ previousSection' = currentSection
            /\ currentSection' = sectionData
       ELSE IF currentSection = sectionData /\ previousSection # "undefined"
         THEN /\ currentlyFocusedSection' = previousSection
              /\ UNCHANGED <<currentSection, previousSection>>
         ELSE UNCHANGED <<currentlyFocusedSection, currentSection,
                          previousSection>>
  /\ UNCHANGED <<navLife, isNavShowing, navEffectPending, navAnimationId,
                 navFrames, frameIds, scalerTransform>>

\* The callback of the sections' observer, called with the report of the
\* section whose data-section-id is sectionData.  It is the callback of the
\* first render (the hook's effect has no dependencies), so currentSection
\* and previousSection are the same two variables in every call.  TOGGLE_SECTION
\* sets state.currentlyFocusedSection to the payload's sectionId.
SectionReport(sectionData, isIntersecting) ==
  /\ navLife = "mounted"
  /\ ~navEffectPending
  /\ Len(sectionReports) < MaxReports
  /\ sectionReports' = Append(sectionReports,
                              [isIntersecting |-> isIntersecting,
                               sectionId |-> sectionData])
  /\ IF isIntersecting
       THEN /\ currentlyFocusedSection' = sectionData
            /\ previousSection' = currentSection
            /\ currentSection' = sectionData
       ELSE IF currentSection = sectionData /\ previousSection # "undefined"
         THEN /\ currentSection' = previousSection
              /\ currentlyFocusedSection' = previousSection
              /\ UNCHANGED previousSection
         ELSE UNCHANGED <<currentlyFocusedSection, currentSection,
                          previousSection>>
  /\ UNCHANGED <<navLife, isNavShowing, navEffectPending, navAnimationId,
                 navFrames, frameIds, scalerTransform>>

\* The page unmounts: the cleanup of the last run of the effect of <Nav />
\* cancels the frame its animationId names, and the observers disconnect.
NavUnmount ==
  /\ navLife = "mounted"
  /\ ~navEffectPending
  /\ navLife' = "unmounted"
  /\ navFrames' = cancelAnimationFrame(navFrames, navAnimationId)
  /\ UNCHANGED <<isNavShowing, currentlyFocusedSection, currentSection,
                 previousSection, sectionReports, navEffectPending,
                 navAnimationId, frameIds, scalerTransform>>

NavNext ==
  \/ \E y \in NavScrollYs :
       NavEffect(y) /\ UNCHANGED <<lookupVars, modalVars, scrollVars, trackerVars, notesVars, dragVars>>
  \/ \E id \in navFrames, y \in NavScrollYs :
       NavFrame(id, y) /\ UNCHANGED <<lookupVars, modalVars, scrollVars, trackerVars, notesVars, dragVars>>
  \/ \E b \in BOOLEAN :
       BannerReport(b) /\ UNCHANGED <<lookupVars, modalVars, scrollVars, trackerVars, notesVars, dragVars>>
  \/ \E s \in Sections, b \in BOOLEAN :
       SectionReport(s, b) /\ UNCHANGED <<lookupVars, modalVars, scrollVars, trackerVars, notesVars, dragVars>>
  \/ NavUnmount /\ UNCHANGED <<lookupVars, modalVars, scrollVars, trackerVars, notesVars, dragVars>>

\* ------------------------------------------- NotesApp: mapPropsToChildren

\* A child of the children prop: a string ("text", not a valid element), a
\* <Note /> or a <div />, with the children it was given and no props added.
Child(type, children) == [type |-> type, children |-> children, props |-> <<>>]

\* The sequences of elements of the set S, of the lengths of ChildCounts.
Lists(S) == UNION {[1..n -> S] : n \in ChildCounts}

\* The children nested at most depth elements deep.  A <Note /> carries
\* nothing or a <Note /> of its own.
RECURSIVE Children(_)
Children(depth) ==
  IF depth = 0
    THEN {Child("text", <<>>), Child("Note", <<>>), Child("div", <<>>)}
    ELSE Children(0)
           \cup {Child("div", c) : c \in Lists(Children(depth - 1))}
           \cup {Child("Note", <<Child("Note", <<>>)>>)}

\* The children props NotesApp is rendered with.
ChildrenProps == Lists(Children(MaxDepth))

\* indexOfComponent++ that leaves the counter as it is.
nextIndexStuck(indexOfComponent) == indexOfComponent

\* indexOfComponent++
nextIndex(indexOfComponent) == indexOfComponent + 1

\* React.cloneElement(child, {index, isInEditingMode, dispatch}) of a
\* <Note />: the props added to it (dispatch is the same for every Note).
cloneNote(child, indexOfComponent) ==
  [child EXCEPT !.props =
     <<[index |-> indexOfComponent,
        isInEditingMode |-> indexOfComponent = currentEditingIndex]>>]

\* recursiveMap over the children child, in order, with the counter at
\* indexOfComponent: the mapped children and the counter afterwards.  A string
\* is returned as it is, a <Note /> is cloned with the counter and the
\* counter incremented (its own children are not looked at), any other
\* element with children is cloned with its children mapped, before the
\* child after it is.
RECURSIVE recursiveMap(_, _)
recursiveMap(child, indexOfComponent) ==
  IF child = <<>>
    THEN [children |-> <<>>, indexOfComponent |-> indexOfComponent]
    ELSE LET c == Head(child)
             first ==
               IF c.type = "text"
                 THEN [child |-> c, indexOfComponent |-> indexOfComponent]
               ELSE IF c.type = "Note"
                 THEN [child |-> cloneNote(c, indexOfComponent),
                       indexOfComponent |-> nextIndex(indexOfComponent)]
               ELSE IF c.children # <<>>
                 THEN LET inner == recursiveMap(c.children, indexOfComponent)
                      IN [child |-> [c EXCEPT !.children = inner.children],
                          indexOfComponent |-> inner.indexOfComponent]
               ELSE [child |-> c, indexOfComponent |-> indexOfComponent]
             rest == recursiveMap(Tail(child), first.indexOfComponent)
         IN [children |-> <<first.child>> \o rest.children,
             indexOfComponent |-> rest.indexOfComponent]

\* mapPropsToChildren(children): recursiveMap from indexOfComponent = 0.
mapPropsToChildren(children) == recursiveMap(children, 0).children

\* The state before a render of NotesApp with the given children, while
\* state.currentEditingIndex is editing.
NotesAt(children, editing) ==
  /\ notesChildren = children
  /\ currentEditingIndex = editing
  /\ rendered = <<>>

NotesInit ==
  \E children \in ChildrenProps, editing \in EditingIndexes :
    NotesAt(children, editing)

\* NotesApp renders: its children go through mapPropsToChildren.
NotesRender ==
  /\ rendered = <<>>
  /\ rendered' = mapPropsToChildren(notesChildren)
  /\ UNCHANGED <<notesChildren, currentEditingIndex>>

NotesNext ==
  \/ NotesRender /\ UNCHANGED <<lookupVars, modalVars, scrollVars, trackerVars, navVars, dragVars>>

\* ------------------------------------------------------- useDragElements

\* The ids of initialItems, in the order of the array.
initialItems == <<0, 1, 2>>

\* The item at index i (from 0) of the list occupies the pixels from
\* i * ItemHeight up to (i + 1) * ItemHeight of the list's axis.
Midpoint(i) == i * ItemHeight + ItemHeight \div 2

\* The index (from 0) of the item whose bounds hold the position y.
IndexAt(y) == y \div ItemHeight

\* The list with the items at the indices i and i + 1 (from 0) swapped.
SwapWithNext(list, i) ==
  [k \in 1..Len(list) |->
     IF k = i + 1 THEN list[i + 2] ELSE IF k = i + 2 THEN list[i + 1]
     ELSE list[k]]

\* A pointer at y is past the edge, towards the dragged item at index from,
\* of the bounds of the adjacent item at index to.
PastEdge(y, from, to) ==
  IF to > from THEN y > to * ItemHeight ELSE y < from * ItemHeight

\* A pointer at y is past the midpoint of the bounds of the item at index
\* to, adjacent to the dragged item at index from.
PastMidpoint(y, from, to) ==
  IF to > from THEN y > Midpoint(to) ELSE y < Midpoint(to)

\* The order and the index of the dragged item once the pointer is at y:
\* the dragged item at index current swaps with the adjacent item as long as
\* the pointer is past that item's midpoint.
RECURSIVE Reordered(_, _, _)
Reordered(list, current, y) ==
  IF current + 1 < Len(list) /\ PastMidpoint(y, current, current + 1)
    THEN Reordered(SwapWithNext(list, current), current + 1, y)
  ELSE IF current > 0 /\ PastMidpoint(y, current, current - 1)
    THEN Reordered(SwapWithNext(list, current - 1), current - 1, y)
  ELSE [items |-> list, currentIndex |-> current]

\* No drag session: the state between two gestures.
NoSession ==
  [draggedId |-> -1, originIndex |-> -1, currentIndex |-> -1,
   pointerOffset |-> 0]

\* The state after the first render of a component that calls the hook with
\* initialItems.
DragAt ==
  /\ dragPhase = "idle"
  /\ items = initialItems
  /\ dragSession = NoSession
  /\ pointer = 0
  /\ emitted = <<>>
  /\ pointerMoves = 0

\* The pointer (or a finger) goes down at y, on the item there: the delay
\* starts.
PointerDown(y) ==
  /\ dragPhase = "idle"
  /\ dragPhase' = "pressed"
  /\ pointer' = y
  /\ UNCHANGED <<items, dragSession, emitted, pointerMoves>>

\* The delay elapses with the pointer still down: the gesture starts on the
\* item under the pointer.
DelayElapsed ==
  /\ dragPhase = "pressed"
  /\ dragPhase' = "dragging"
  /\ dragSession' = [draggedId |-> items[IndexAt(pointer) + 1],
                     originIndex |-> IndexAt(pointer),
                     currentIndex |-> IndexAt(pointer),
                     pointerOffset |-> pointer - IndexAt(pointer) * ItemHeight]
  /\ UNCHANGED <<items, pointer, emitted, pointerMoves>>

\* The pointer moves to y during a gesture.
PointerMove(y) ==
  /\ dragPhase = "dragging"
  /\ pointerMoves < MaxPointerMoves
  /\ y # pointer
  /\ pointerMoves' = pointerMoves + 1
  /\ pointer' = y
  /\ LET r == Reordered(items, dragSession.currentIndex, y)
     IN /\ items' = r.items
        /\ dragSession' = [dragSession EXCEPT !.currentIndex = r.currentIndex]
  /\ UNCHANGED <<dragPhase, emitted>>

\* The pointer goes up: a gesture commits the order and emits it to the
\* consumer, and its session is discarded; a tap, released before the delay
\* elapsed, does nothing.
PointerUp ==
  /\ dragPhase # "idle"
  /\ dragPhase' = "idle"
  /\ dragSession' = NoSession
  /\ emitted' = IF dragPhase = "dragging" THEN items ELSE emitted
  /\ UNCHANGED <<items, pointer, pointerMoves>>

DragNext ==
  \/ \E y \in PointerYs :
       PointerDown(y) /\ UNCHANGED <<lookupVars, modalVars, scrollVars, trackerVars, navVars, notesVars>>
  \/ DelayElapsed /\ UNCHANGED <<lookupVars, modalVars, scrollVars, trackerVars, navVars, notesVars>>
  \/ \E y \in PointerYs :
       PointerMove(y) /\ UNCHANGED <<lookupVars, modalVars, scrollVars, trackerVars, navVars, notesVars>>
  \/ PointerUp /\ UNCHANGED <<lookupVars, modalVars, scrollVars, trackerVars, navVars, notesVars>>

\* ---------------------------------------------------------- specifications

\* The hook alone, beside a Modal that was rendered closed and stays so.
InitLookup ==
  /\ LookupInit
  /\ ModalAt(FALSE, FALSE, 0, [e \in RootElems |-> "none"])
  /\ ScrollAt(200, 0, TRUE, DefaultDuration, "easeInQuart", 0)
  /\ TrackerAt(<<90, 100>>, [e \in RefElems |-> 0])
  /\ NavAt
  /\ NotesAt(<<>>, -1)
  /\ DragAt

SpecLookup == InitLookup /\ [][LookupNext]_vars

\* The Modal alone, beside a hook that was rendered and stays so.
InitModal ==
  /\ ModalInit
  /\ LookupInit
  /\ ScrollAt(200, 0, TRUE, DefaultDuration, "easeInQuart", 0)
  /\ TrackerAt(<<90, 100>>, [e \in RefElems |-> 0])
  /\ NavAt
  /\ NotesAt(<<>>, -1)
  /\ DragAt

SpecModal == InitModal /\ [][ModalNext]_vars

\* scroll alone, beside a hook and a Modal that were rendered and stay so.
InitScroll ==
  /\ ScrollInit
  /\ LookupInit
  /\ ModalAt(FALSE, FALSE, 0, [e \in RootElems |-> "none"])
  /\ TrackerAt(<<90, 100>>, [e \in RefElems |-> 0])
  /\ NavAt
  /\ NotesAt(<<>>, -1)
  /\ DragAt

SpecScroll == InitScroll /\ [][ScrollNext]_vars

\* The browser runs every requested animation frame and every timeout.
SpecScrollFair == SpecScroll /\ WF_vars(ScrollNext)

\* The hook alone, beside a hook, a Modal and a scroll that stay as they are.
InitTracker ==
  /\ TrackerInit
  /\ LookupInit
  /\ ModalAt(FALSE, FALSE, 0, [e \in RootElems |-> "none"])
  /\ ScrollAt(200, 0, TRUE, DefaultDuration, "easeInQuart", 0)
  /\ NavAt
  /\ NotesAt(<<>>, -1)
  /\ DragAt

SpecTracker == InitTracker /\ [][TrackerNext]_vars

\* The page alone, beside utilities that were rendered and stay so.
InitNav ==
  /\ NavAt
  /\ LookupInit
  /\ ModalAt(FALSE, FALSE, 0, [e \in RootElems |-> "none"])
  /\ ScrollAt(200, 0, TRUE, DefaultDuration, "easeInQuart", 0)
  /\ TrackerAt(<<90, 100>>, [e \in RefElems |-> 0])
  /\ NotesAt(<<>>, -1)
  /\ DragAt

SpecNav == InitNav /\ [][NavNext]_vars

\* mapPropsToChildren over every children prop and editing index of the
\* value spaces, beside utilities that were rendered and stay so.
InitNotes ==
  /\ NotesInit
  /\ LookupInit
  /\ ModalAt(FALSE, FALSE, 0, [e \in RootElems |-> "none"])
  /\ ScrollAt(200, 0, TRUE, DefaultDuration, "easeInQuart", 0)
  /\ TrackerAt(<<90, 100>>, [e \in RefElems |-> 0])
  /\ NavAt
  /\ DragAt

SpecNotes == InitNotes /\ [][NotesNext]_vars

\* The hook alone, beside utilities that were rendered and stay so.
InitDrag ==
  /\ DragAt
  /\ LookupInit
  /\ ModalAt(FALSE, FALSE, 0, [e \in RootElems |-> "none"])
  /\ ScrollAt(200, 0, TRUE, DefaultDuration, "easeInQuart", 0)
  /\ TrackerAt(<<90, 100>>, [e \in RefElems |-> 0])
  /\ NavAt
  /\ NotesAt(<<>>, -1)

SpecDrag == InitDrag /\ [][DragNext]_vars

\* ---------------------------------------------------------------- claims

\* Request c was superseded: a later query change happened after the change
\* that issued it.
Stale(c) == calls[c].change < Len(changes)

\* C1: a response to a request that a newer query change has superseded does
\* not overwrite the state (results, isLoading, error): whenever a stale
\* request settles, the reducer state stays as it was.
C1_StaleResponseDoesNotOverwrite ==
  [][\A c \in inflight : (c \notin inflight' /\ Stale(c)) => state' = state]_vars

\* C2: every query change cancels the pending debounced call of the previous
\* change, so at most one debounce timer is pending, no change is fetched
\* twice, a change superseded within the debounce wait is never fetched, and
\* after the burst "a", "ab", "abc" exactly one call was issued, for "abc".
C2_OnlyLastQueryOfBurstFetched ==
  /\ Cardinality(timers) <= 1
  /\ \A i, j \in 1..Len(calls) : calls[i].change = calls[j].change => i = j
  /\ \A i \in 1..Len(calls) :
       \/ calls[i].change = Len(changes)
       \/ ~changes[calls[i].change + 1].early
  /\ ( /\ Len(changes) = 3
       /\ [i \in 1..3 |-> changes[i].query] = Typed
       /\ changes[2].early /\ changes[3].early
       /\ lifecycle = "mounted" /\ timers = {} )
     => [i \in 1..Len(calls) |-> calls[i].query] = <<"abc">>

\* C2 witness: the burst "a", "ab", "abc" was typed within the debounce wait,
\* its timer has fired, and the one call issued is for "abc".
C2_BurstOfThreeFetchedOnce ==
  /\ Len(changes) = 3
  /\ [i \in 1..3 |-> changes[i].query] = Typed
  /\ changes[2].early /\ changes[3].early
  /\ lifecycle = "mounted" /\ timers = {}
  /\ Len(calls) = 1 /\ calls[1].query = "abc"

\* C3: while the hook is mounted the session token changes whenever a
\* place-details lookup settles (with a response or with a failure) and
\* whenever the interval elapses, and changes at no other step.
C3_TokenChangesAfterEachLookup ==
  [][ /\ \A d \in detailsInflight :
           (d \notin detailsInflight' /\ lifecycle' = "mounted")
             => sessionToken' # sessionToken
      /\ IntervalTick => sessionToken' # sessionToken
      /\ sessionToken' # sessionToken
           => (IntervalTick \/ \E d \in detailsInflight : d \notin detailsInflight')
    ]_vars

\* C4: after teardown nothing started before it takes effect: no step of an
\* unmounted hook changes the reducer state, settles a request with a
\* dispatch, issues a network call or resets the session token.
C4_NoEffectAfterTeardown ==
  [][lifecycle = "unmounted" =>
       /\ state' = state
       /\ sessionToken' = sessionToken
       /\ resets' = resets
       /\ inflight' = inflight
       /\ detailsInflight' = detailsInflight]_vars

\* C4 witness: the hook was torn down with an autocomplete request and a
\* details request in flight and a debounce timer pending, and that timer has
\* fired since.
C4_TornDownWithAllPending ==
  /\ lifecycle = "unmounted"
  /\ tornDown.requests # {}
  /\ tornDown.details # {}
  /\ tornDown.timers # {}
  /\ timers = {}

\* C5: while the hook is mounted and a debounced call is pending or a request
\* for the current query is in flight, isLoading is true.
C5_LoadingWhileOutstanding ==
  ( /\ lifecycle = "mounted"
    /\ \/ timers # {}
       \/ \E c \in inflight : ~Stale(c) )
  => state.isLoading

\* C6: the results the hook returns are an array in every reachable state.
C6_ResultsAlwaysArray == state.results.kind = "array"

\* C7: the state after a response is the status table applied to the state
\* before: OK replaces results by the response's predictions and clears error,
\* ZERO_RESULTS empties results and clears error, REQUEST_DENIED and
\* UNKNOWN_ERROR set two different non-null messages, and all four end loading.
C7_StatusTable ==
  [][\A c \in inflight :
       /\ \A p \in PredictionLists :
            Respond(c, "OK", p)
              => /\ state'.results = JsArray(p)
                 /\ state'.error = null
                 /\ ~state'.isLoading
       /\ Respond(c, "ZERO_RESULTS", <<>>)
            => /\ state'.results = JsArray(<<>>)
               /\ state'.error = null
               /\ ~state'.isLoading
       /\ Respond(c, "REQUEST_DENIED", <<>>)
            => /\ state'.error # null
               /\ ~state'.isLoading
       /\ Respond(c, "UNKNOWN_ERROR", <<>>)
            => /\ state'.error # null
               /\ ~state'.isLoading
       /\ reducer(state, [type |-> "REQUEST_DENIED"]).error
            # reducer(state, [type |-> "UNKNOWN_ERROR"]).error
    ]_vars

\* The statuses that report a failure.
FailureStatuses == Statuses \ {"OK", "ZERO_RESULTS"}

\* C8: every failure degrades to the empty state: after a network failure or
\* a response with a failure status the hook holds no results and is not
\* loading.
C8_FailureDegradesToEmpty ==
  [][\A c \in inflight :
       (NetworkFail(c) \/ \E s \in FailureStatuses : Respond(c, s, <<>>))
         => /\ state'.results = JsArray(<<>>)
            /\ ~state'.isLoading
    ]_vars

C11_ChildrenTabMatchesOpen ==
  (modalLife = "mounted" /\ hasUpdated /\ ~effectPending /\ ~deferredPending)
    => \A e \in DOMAIN modalTab : (modalTab[e] = "-1") <=> ~isOpen

\* The isOpen effect of the latest render has run with isOpen true.
OverlayOpen == modalLife = "mounted" /\ ~effectPending /\ isOpen

\* The Modal is unmounted, or the isOpen effect of the latest render has run
\* with isOpen false.
OverlayClosed == modalLife = "unmounted" \/ (~effectPending /\ ~isOpen)

\* C12: after any toggles and an optional unmount, exactly one handleKeyDown is
\* a keydown listener of window while the overlay is open and none while it is
\* closed or unmounted; a keydown event calls handleExit exactly once when the
\* key is Escape and the overlay is open, and not at all when the overlay is
\* closed or unmounted or the key is another one.
C12_EscapeExitsOnceWhenOpen ==
  /\ [](OverlayOpen => Cardinality(listeners) = 1)
  /\ [](OverlayClosed => listeners = {})
  /\ [][\A key \in Keys : KeyDown(key) =>
          /\ (key = "Escape" /\ OverlayOpen) => exitCalls' = 1
          /\ (key # "Escape" \/ OverlayClosed) => exitCalls' = 0]_vars

\* C12 witness: the overlay was opened, closed and opened again, and the
\* latest keydown event called handleExit once.
C12_EscapePressedWhenReopened ==
  /\ OverlayOpen
  /\ effectRender >= 4
  /\ exitCalls = 1
  /\ Cardinality(listeners) = 1

Translated ==
  /\ Len(scrollLog') = Len(scrollLog) + 1
  /\ scrollLog'[Len(scrollLog')] = "translate"

\* C15: in every frame that applies a translate, the easing function is
\* evaluated on elapsed / duration within [0, 1], and whenever its value
\* exceeds 1 the translate applied is the one of easing value 1, the final
\* position, whatever the target position, the offset and the page offset.
C15_OvershootSnapsToFinalPosition ==
  [][Translated =>
       LET elapsed == now' - startTime'
           ease == Ease(easingFn, Rat(elapsed, duration))
       IN /\ 0 <= elapsed
          /\ elapsed <= duration
          /\ ease.n > ease.d
               => transform' = translate(Rat(1, 1), targetTop, scrollOffset,
                                         cachePosition')]_vars

\* The number of entries of scrollLog that are the event e.
Count(e) == Cardinality({i \in 1..Len(scrollLog) : scrollLog[i] = e})

\* scroll has reset the transform and jumped.
Completed == scrollPhase \in {"done", "threw"}

\* C16: a call of scroll completes, and only once: the transform is reset
\* once, the window jumps once, to cachePosition, and a given callback is
\* called once; the reset, the jump and the call are consecutive and in this
\* order, no translate of a frame comes between or after them, and no
\* animation frame is left requested.
C16_CompletesOnceInOrder ==
  /\ [](/\ Count("reset") <= 1
        /\ Count("jump") <= 1
        /\ Count("callback") <= 1
        /\ Completed <=> Count("reset") = 1
        /\ \A i \in 1..Len(scrollLog) :
             scrollLog[i] = "reset"
               => /\ Len(scrollLog) = i + 2
                  /\ scrollLog[i + 1] = "jump"
                  /\ callbackGiven => scrollLog[i + 2] = "callback"
        /\ Completed
             => /\ transform = Rat(0, 1)
                /\ scrollY = cachePosition
                /\ frames = {})
  /\ (scrollPhase = "animating") ~> Completed

\* C16 witness: a scroll with a callback has completed after three frames.
C16_CompletedWithCallback ==
  /\ scrollPhase = "done"
  /\ callbackGiven
  /\ Len(scrollLog) >= 6
  /\ scrollLog[Len(scrollLog)] = "callback"
  /\ scrollY = cachePosition

\* C17: once the consumer of a running scroll has unmounted, base carries no
\* translate, no animation frame is requested, and scroll does nothing more
\* to the page: no translate, no reset, no jump and no call of callback.
C17_NothingAfterConsumerUnmount ==
  /\ [](consumerGone => (transform = Rat(0, 1) /\ frames = {}))
  /\ [][consumerGone => (scrollLog' = scrollLog /\ scrollY' = scrollY)]_vars

\* C18: a scroll called without a callback raises no error, up to and
\* including its completion.
C18_NoErrorWithoutCallback ==
  ~callbackGiven => (scrollPhase # "threw" /\ Count("TypeError") = 0)

\* The observer finds that element e crossed a boundary since its last
\* observation: a threshold, or the edge of the root.
Crossed(e) ==
  /\ e \in targets
  /\ previous[e].thresholdIndex >= 0
  /\ Observation(e) # previous[e]

\* The calls of callback that deliver the entries q, in order.
ReportsOf(q) ==
  [i \in 1..Len(q) |->
     [isIntersecting |-> q[i].isIntersecting, target |-> q[i].target]]

C20_NoReportAfterUnmount ==
  /\ [](trackerLife = "mounted" => targets = RefElems)
  /\ [](trackerLife = "unmounted" => targets = {})
  /\ [][trackerLife = "unmounted" => reports' = reports]_vars

\* C24: the query effect does nothing on the initial render: until the first
\* change of the query after the mount no LOADING is dispatched, no debounce
\* timer is set and no request is issued, and every request is issued for a
\* change of the query.
C24_NoRequestBeforeFirstChange ==
  /\ changes = <<>>
       => /\ state = initialState
          /\ timers = {}
          /\ debouncedFn = 0
          /\ inflight = {}
          /\ calls = <<>>
  /\ \A c \in 1..Len(calls) : calls[c].change \in 1..Len(changes)

\* C24 witness: the hook has mounted, the query has changed once, and the
\* first request was issued for that change.
C24_FirstRequestAfterChange ==
  /\ lifecycle = "mounted"
  /\ Len(changes) = 1
  /\ Len(calls) = 1
  /\ calls[1].change = 1

\* C29: loading ends with the request: while the hook is mounted, once the
\* debounce timer of the latest query change has fired and every request has
\* settled, with any response status or with a network failure, isLoading is
\* false.
C29_LoadingEndsWhenSettled ==
  (lifecycle = "mounted" /\ timers = {} /\ inflight = {})
    => ~state.isLoading

\* C26: while an overlay that was mounted closed has never been opened, no
\* step of the Modal (the effects of its first render, the forced second
\* render, the deferred pass) changes the focus, the scroll offset of the
\* window or the style of the body.
C26_ClosedMountTouchesNothing ==
  [][(/\ ~isOpen
      /\ renderId <= 2
      /\ ModalMountEffects \/ PortalRender \/ DeferredPass)
       => /\ activeElement' = activeElement
          /\ pageYOffset' = pageYOffset
          /\ bodyStyle' = bodyStyle]_vars

\* C27: whenever the isOpen effect has run with isOpen true, no focusable
\* child of the overlay carries tabindex -1, whether or not the deferred pass
\* of the first closed run has run since.
C27_DeferredPassKeepsOpenReachable ==
  OverlayOpen => \A e \in DOMAIN modalTab : modalTab[e] # "-1"

\* C28: once the Modal is unmounted, no focusable element of the background
\* carries tabindex -1, the body is not fixed, no handleKeyDown is a keydown
\* listener and the container div is not in the document.
C28_NothingLeftAfterUnmount ==
  modalLife = "unmounted"
    => /\ \A e \in RootElems : rootTab[e] # "-1"
       /\ ~bodyStyle.fixed
       /\ listeners = {}
       /\ ~modalInDom

\* C22: the frame loop of the progress bar of <Nav /> never has more than one
\* callback pending; once the effect has run for an isShowing of false, and
\* once the page is unmounted, no callback of the loop is pending, and a
\* callback runs only on a mounted page whose <Nav /> is showing or whose
\* effect has yet to run for the change of isShowing.
C22_FrameLoopCancelled ==
  /\ [](/\ Cardinality(navFrames) <= 1
        /\ (navLife = "unmounted" \/ (~navEffectPending /\ ~isNavShowing))
             => navFrames = {})
  /\ [][(\E id \in navFrames, y \in NavScrollYs : NavFrame(id, y))
          => /\ navLife = "mounted"
             /\ isNavShowing \/ navEffectPending]_vars

\* C22 witness: the loop has run and <Nav /> was hidden afterwards.
C22_HiddenAfterLoopRan ==
  /\ navLife = "mounted"
  /\ ~isNavShowing
  /\ ~navEffectPending
  /\ frameIds >= 2
  /\ navFrames = {}

\* C23: a report that section s intersects makes s the current and the
\* focused section and the section current before it the previous one; a
\* report that the current section does not intersect, with a previous section
\* recorded, makes the previous section the current and the focused one; any
\* other report that a section does not intersect changes none of the three;
\* state.currentlyFocusedSection equals currentSection throughout.
C23_HighlightFollowsReports ==
  /\ [](currentlyFocusedSection = currentSection)
  /\ [][\A s \in Sections :
          /\ SectionReport(s, TRUE)
               => /\ currentlyFocusedSection' = s
                  /\ currentSection' = s
                  /\ previousSection' = currentSection
          /\ SectionReport(s, FALSE)
               => IF s = currentSection /\ previousSection # "undefined"
                    THEN /\ currentlyFocusedSection' = previousSection
                         /\ currentSection' = previousSection
                    ELSE UNCHANGED <<currentlyFocusedSection, currentSection,
                                     previousSection>>]_vars

\* C23 witness: home, then about came into view and about left it again:
\* the highlight is back on home.
C23_RevertedToPrevious ==
  /\ sectionReports = <<[isIntersecting |-> TRUE, sectionId |-> "home"],
                        [isIntersecting |-> TRUE, sectionId |-> "about"],
                        [isIntersecting |-> FALSE, sectionId |-> "about"]>>
  /\ currentSection = "home"
  /\ currentlyFocusedSection = "home"

\* The <Note /> elements of children in document order, depth first; the
\* children of a <Note /> are not looked at.
RECURSIVE FoundNotes(_)
FoundNotes(children) ==
  IF children = <<>>
    THEN <<>>
    ELSE LET c == Head(children)
         IN (IF c.type = "Note" THEN <<c>> ELSE FoundNotes(c.children))
              \o FoundNotes(Tail(children))

\* C25: the n <Note /> elements mapPropsToChildren finds get the indices
\* 0..n-1 in document order, depth first; a Note's isInEditingMode is true
\* exactly when its index is currentEditingIndex, so at most one Note is in
\* editing mode and none is when currentEditingIndex is -1.
C25_NotesIndexedInDocumentOrder ==
  rendered # <<>> =>
    LET found == FoundNotes(rendered)
        editing == {i \in 1..Len(found) : found[i].props[1].isInEditingMode}
    IN /\ Len(found) = Len(FoundNotes(notesChildren))
       /\ \A i \in 1..Len(found) :
            /\ Len(found[i].props) = 1
            /\ found[i].props[1].index = i - 1
            /\ found[i].props[1].isInEditingMode
                 <=> (i - 1 = currentEditingIndex)
       /\ Cardinality(editing) <= 1
       /\ currentEditingIndex = -1 => editing = {}

\* C25 witness: four Notes under two elements, the third in editing mode.
C25_ThirdOfFourNotesEditing ==
  /\ Len(rendered) = 2
  /\ Len(FoundNotes(rendered)) = 4
  /\ currentEditingIndex = 2
  /\ FoundNotes(rendered)[3].props[1].isInEditingMode

\* C21: during a gesture a pointer move that is past the midpoint of neither
\* item adjacent to the dragged one leaves the order as it is, as do the
\* start of the gesture and the release, and the release emits that order: a
\* gesture with no move past an adjacent midpoint emits the order the list
\* had before it.
C21_NoCrossingKeepsOrder ==
  [][/\ \A y \in PointerYs :
          (/\ PointerMove(y)
           /\ LET c == dragSession.currentIndex
              IN /\ c + 1 < Len(items) => y <= (c + 1) * ItemHeight + ItemHeight \div 2
                 /\ c > 0 => y >= (c - 1) * ItemHeight + ItemHeight \div 2)
            => items' = items
     /\ (\E y \in PointerYs : PointerDown(y)) \/ DelayElapsed => items' = items
     /\ (PointerUp /\ dragPhase = "dragging")
          => emitted' = items /\ items' = items]_vars

\* C21 witness: a gesture of one move, into the lower half of the first
\* item's bounds and past no midpoint, was released and emitted the initial
\* order.
C21_ReleasedWithoutCrossing ==
  /\ dragPhase = "idle"
  /\ pointerMoves = 1
  /\ pointer = 80
  /\ emitted = initialItems
  /\ items = initialItems

====
